---- MODULE Spec2Model ----
(***************************************************************************)
(* Model of hou_docs_scraper.py: the DocumentationScraper class.           *)
(*                                                                         *)
(* URLs, hrefs and file names are strings; the string functions of the     *)
(* program (split, replace, startswith, re.sub, lstrip, urlparse, urljoin) *)
(* are operators on strings, computed the way the Python code computes     *)
(* them.  An HTML document is the sequence of its nodes: an anchor with an *)
(* href and a text, or a plain text node.  The empty document <<>> is the  *)
(* empty response body "".                                                 *)
(***************************************************************************)
EXTENDS Integers, Sequences, FiniteSets, TLC

VARIABLES
    start_url,      \* self.start_url
    base_url,       \* self.base_url
    visited_urls,   \* self.visited_urls
    to_visit,       \* self.to_visit
    max_pages,      \* argument of the running scrape() call
    page_count,     \* local of scrape()
    current_url,    \* local of scrape()
    html_content,   \* local of scrape()
    pc,             \* position inside scrape()
    files,          \* the output directory: file name -> content written
    warnings,       \* file names log.warning reported as already existing
    fetched,        \* the URLs requests.get was called with, in order
    saved,          \* the URLs save_content was called with, in order
    discarded,      \* URLs dropped at line 181 during the current run
    runs,           \* number of scrape() calls made so far
    enqueued,       \* every URL ever put into to_visit, in the order of its append
    ret             \* the last direct call of a method: its arguments and result

vars == <<start_url, base_url, visited_urls, to_visit, max_pages, page_count,
          current_url, html_content, pc, files, warnings, fetched, saved,
          discarded, runs, enqueued, ret>>

scraper_vars == <<start_url, base_url, visited_urls, to_visit, max_pages,
                  page_count, current_url, html_content, pc, files, warnings,
                  fetched, saved, discarded, runs, enqueued>>

(***************************************************************************)
(* Python string primitives.  A value used more than once is passed as an  *)
(* operator argument, so that it is computed once.                         *)
(***************************************************************************)
CharAt(s, i) == SubSeq(s, i, i)

StartsWith(s, p) == Len(p) <= Len(s) /\ SubSeq(s, 1, Len(p)) = p

EndsWith(s, p) == Len(p) <= Len(s) /\ SubSeq(s, Len(s) - Len(p) + 1, Len(s)) = p

Least(hits) == IF hits = {} THEN 0 ELSE CHOOSE i \in hits : \A j \in hits : i <= j

\* s.find(sub) + 1: position of the first occurrence, 0 when there is none
Find(s, sub) ==
    Least({i \in 1..(Len(s) - Len(sub) + 1) : SubSeq(s, i, i + Len(sub) - 1) = sub})

Contains(s, sub) == Find(s, sub) # 0

\* s.replace(old, new), old non-empty: non-overlapping, left to right
RECURSIVE Replace(_, _, _)
ReplaceAt(s, old, new, i) ==
    IF i = 0 THEN s
    ELSE SubSeq(s, 1, i - 1) \o new \o Replace(SubSeq(s, i + Len(old), Len(s)), old, new)

Replace(s, old, new) == ReplaceAt(s, old, new, Find(s, old))

\* s.split(sep): the list of pieces
RECURSIVE Split(_, _)
SplitAt(s, sep, i) ==
    IF i = 0 THEN <<s>>
    ELSE <<SubSeq(s, 1, i - 1)>> \o Split(SubSeq(s, i + Len(sep), Len(s)), sep)

Split(s, sep) == SplitAt(s, sep, Find(s, sep))

\* what precedes and what follows position i (the whole string and "" when i = 0)
Cut(s, i) ==
    IF i = 0 THEN <<s, "">> ELSE <<SubSeq(s, 1, i - 1), SubSeq(s, i + 1, Len(s))>>

\* "sep".join(parts)
RECURSIVE Join(_, _)
Join(parts, sep) ==
    IF parts = <<>> THEN ""
    ELSE IF Len(parts) = 1 THEN parts[1]
    ELSE parts[1] \o sep \o Join(Tail(parts), sep)

\* re.sub(r'[...]', rep, s) for a character class
RECURSIVE ReSub(_, _, _)
ReSub(class, rep, s) ==
    IF s = "" THEN ""
    ELSE (IF CharAt(s, 1) \in class THEN rep ELSE CharAt(s, 1))
         \o ReSub(class, rep, SubSeq(s, 2, Len(s)))

\* s.lstrip(ch)
RECURSIVE LStrip(_, _)
LStrip(s, ch) ==
    IF s # "" /\ CharAt(s, 1) = ch THEN LStrip(SubSeq(s, 2, Len(s)), ch) ELSE s

(***************************************************************************)
(* urllib.parse, for URLs without params (';') and with lower-case schemes *)
(***************************************************************************)
Letters == {"a", "b", "c", "d", "e", "f", "g", "h", "i", "j", "k", "l", "m",
            "n", "o", "p", "q", "r", "s", "t", "u", "v", "w", "x", "y", "z"}

Digits == {"0", "1", "2", "3", "4", "5", "6", "7", "8", "9"}

SchemeChars == Letters \cup Digits \cup {"+", "-", "."}

\* urlsplit: the scheme is what precedes the first ':' when that is a letter
\* followed by scheme characters; i is the position of the first ':'
SplitSchemeAt(url, i) ==
    IF i > 1 /\ CharAt(url, 1) \in Letters
       /\ \A k \in 1..(i - 1) : CharAt(url, k) \in SchemeChars
    THEN Cut(url, i) ELSE <<"", url>>

SplitScheme(url) == SplitSchemeAt(url, Find(url, ":"))

\* _splitnetloc: after "//", up to the first of '/', '?', '#'
SplitNetlocAt(rest, stop) ==
    IF stop = 0 THEN <<SubSeq(rest, 3, Len(rest)), "">>
    ELSE <<SubSeq(rest, 3, stop - 1), SubSeq(rest, stop, Len(rest))>>

SplitNetloc(rest) ==
    IF StartsWith(rest, "//")
    THEN SplitNetlocAt(rest, Least({i \in 3..Len(rest) : CharAt(rest, i) \in {"/", "?", "#"}}))
    ELSE <<"", rest>>

Parts4(scheme, netloc, pq, fragment) ==
    [scheme |-> scheme, netloc |-> netloc, path |-> pq[1], query |-> pq[2],
     fragment |-> fragment]

Parts3(scheme, netloc, bf) == Parts4(scheme, netloc, Cut(bf[1], Find(bf[1], "?")), bf[2])

Parts2(scheme, nr) == Parts3(scheme, nr[1], Cut(nr[2], Find(nr[2], "#")))

Parts1(sr) == Parts2(sr[1], SplitNetloc(sr[2]))

urlparse(url) == Parts1(SplitScheme(url))

\* urlunparse for a scheme that uses a netloc (http)
urlunparse(scheme, netloc, path, query, fragment) ==
    scheme \o ":" \o "//" \o netloc
    \o (IF path # "" /\ ~StartsWith(path, "/") THEN "/" \o path ELSE path)
    \o (IF query # "" THEN "?" \o query ELSE "")
    \o (IF fragment # "" THEN "#" \o fragment ELSE "")

\* filter(None, segments[1:-1]): drop the empty inner segments
RECURSIVE DropEmpty(_)
DropEmpty(segs) ==
    IF segs = <<>> THEN <<>>
    ELSE (IF segs[1] = "" THEN <<>> ELSE <<segs[1]>>) \o DropEmpty(Tail(segs))

FilterInner(segs) ==
    IF Len(segs) <= 2 THEN segs
    ELSE <<segs[1]>> \o DropEmpty(SubSeq(segs, 2, Len(segs) - 1)) \o <<segs[Len(segs)]>>

\* base_parts: the segments of the base path without the last non-empty one
BaseParts(bparts) ==
    IF bparts[Len(bparts)] # "" THEN SubSeq(bparts, 1, Len(bparts) - 1) ELSE bparts

Segments(bpath, path) ==
    IF StartsWith(path, "/") THEN Split(path, "/")
    ELSE FilterInner(BaseParts(Split(bpath, "/")) \o Split(path, "/"))

\* the dot-segment loop of urljoin
RECURSIVE Resolve(_, _)
Resolve(segs, acc) ==
    IF segs = <<>> THEN acc
    ELSE IF segs[1] = ".."
    THEN Resolve(Tail(segs), IF acc = <<>> THEN acc ELSE SubSeq(acc, 1, Len(acc) - 1))
    ELSE IF segs[1] = "." THEN Resolve(Tail(segs), acc)
    ELSE Resolve(Tail(segs), Append(acc, segs[1]))

ResolvedPath(segments) ==
    IF segments[Len(segments)] \in {".", ".."}
    THEN Append(Resolve(segments, <<>>), "") ELSE Resolve(segments, <<>>)

OrRoot(joined) == IF joined = "" THEN "/" ELSE joined

\* urljoin on the parsed base b and the parsed reference u
JoinParsed(base, url, b, u) ==
    IF u.scheme # "" /\ u.scheme # b.scheme THEN url
    ELSE IF u.netloc # ""
    THEN urlunparse(b.scheme, u.netloc, u.path, u.query, u.fragment)
    ELSE IF u.path = ""
    THEN urlunparse(b.scheme, b.netloc, b.path,
                    IF u.query = "" THEN b.query ELSE u.query, u.fragment)
    ELSE urlunparse(b.scheme, b.netloc,
                    OrRoot(Join(ResolvedPath(Segments(b.path, u.path)), "/")),
                    u.query, u.fragment)

urljoin(base, url) ==
    IF base = "" THEN url
    ELSE IF url = "" THEN base
    ELSE JoinParsed(base, url, urlparse(base), urlparse(url))

(***************************************************************************)
(* HTML documents                                                          *)
(***************************************************************************)
Anchor(href, text) == [name |-> "a", href |-> href, text |-> text]

\* what a_tag.replace_with(a_tag.text) leaves in the tree
TextNode(text) == [name |-> "#text", href |-> "", text |-> text]

\* the value of html_content: None, or the text of the response
None == [is_none |-> TRUE, text |-> <<>>]

Text(doc) == [is_none |-> FALSE, text |-> doc]

(***************************************************************************)
(* DocumentationScraper: the pure methods                                  *)
(***************************************************************************)
START_URL == "http://127.0.0.1:48626/hom/hou/index.html"

\* line 27: f"{urlparse(start_url).scheme}://{urlparse(start_url).netloc}"
BaseUrlOfParsed(p) == p.scheme \o "://" \o p.netloc

BaseUrlOf(url) == BaseUrlOfParsed(urlparse(url))

\* the character class of line 53
InvalidChars == {"\\", "/", "*", "?", ":", "\"", "<", ">", "|"}

\* line 40
StripQueryAndFragment(url) == Split(Split(url, "?")[1], "#")[1]

\* the path separators dropped instead of replaced
PathToNameDropsSlash(url) == Replace(Replace(url, base_url, ""), "/", "")

\* lines 45-46
PathToName(url) == Replace(Replace(url, base_url, ""), "/", "_")

\* lines 49-50
OrDomainName(filename, url) == IF filename = "" THEN urlparse(url).netloc ELSE filename

\* the substitution of line 53 left out
ReplaceInvalidSkipped(filename) == filename

\* line 53
ReplaceInvalid(filename) == ReSub(InvalidChars, "_", filename)

\* the extension added without the test of line 56
AddExtensionAlways(filename) == filename \o ".html"

\* lines 56-57
AddExtension(filename) ==
    IF ~EndsWith(filename, ".html") THEN filename \o ".html" ELSE filename

\* line 60
StripLeading(filename) == LStrip(filename, "_")

\* lines 45-64, url being the stripped URL of line 40
FilenameOfStripped(url) ==
    StripLeading(AddExtension(ReplaceInvalid(OrDomainName(PathToName(url), url))))

get_filename_from_url(url) == FilenameOfStripped(StripQueryAndFragment(url))

\* line 153
ScopeRoot == Replace(START_URL, "index.html", "")

\* every URL taken for a documentation page
IsDocumentationPageAlways(url) == TRUE

is_documentation_page(url) == StartsWith(url, ScopeRoot)

\* lines 81-93, pieces being absolute_url.split("#")
RewriteFragmentLink(url, a_tag, pieces) ==
    IF is_documentation_page(pieces[1])
    THEN [a_tag EXCEPT !.href = get_filename_from_url(pieces[1]) \o "#" \o pieces[2]]
    ELSE IF pieces[1] = url
    THEN [a_tag EXCEPT !.href = "#" \o pieces[2]]
    ELSE TextNode(a_tag.text)

\* an out-of-scope link kept as it is
RewritePlainLinkKeeps(a_tag, absolute_url) ==
    IF is_documentation_page(absolute_url)
    THEN [a_tag EXCEPT !.href = get_filename_from_url(absolute_url)]
    ELSE a_tag

\* lines 97-102
RewritePlainLink(a_tag, absolute_url) ==
    IF is_documentation_page(absolute_url)
    THEN [a_tag EXCEPT !.href = get_filename_from_url(absolute_url)]
    ELSE TextNode(a_tag.text)

\* lines 80-102
RewriteResolved(url, a_tag, absolute_url) ==
    IF Contains(absolute_url, "#")
    THEN RewriteFragmentLink(url, a_tag, Split(absolute_url, "#"))
    ELSE RewritePlainLink(a_tag, absolute_url)

\* lines 76-102: what one <a href=...> becomes
RewriteAnchor(url, a_tag) == RewriteResolved(url, a_tag, urljoin(url, a_tag.href))

process_html_content(url, html) ==
    [i \in 1..Len(html) |->
        IF html[i].name = "a" THEN RewriteAnchor(url, html[i]) ELSE html[i]]

\* every resolved link followed
FollowLinkAlways(absolute_url) == <<absolute_url>>

\* line 142
FollowLink(absolute_url) ==
    IF StartsWith(absolute_url, base_url) /\ ~Contains(absolute_url, "#")
    THEN <<absolute_url>> ELSE <<>>

RECURSIVE extract_links(_, _)
extract_links(url, html) ==
    IF html = <<>> THEN <<>>
    ELSE (IF html[1].name = "a" THEN FollowLink(urljoin(url, html[1].href)) ELSE <<>>)
         \o extract_links(url, Tail(html))

(***************************************************************************)
(* Bounds and inputs                                                       *)
(***************************************************************************)
MaxBudget == 2      \* largest finite max_pages tried
MaxRuns == 2        \* scrape() calls per scraper object
MaxTokens == 3      \* tokens per generated URL suffix or href

\* max_pages=None
NoBudget == -1

Budgets == {NoBudget} \cup 0..MaxBudget

\* all concatenations of at most n tokens
RECURSIVE Strings(_, _)
Extend(tokens, shorter) == shorter \cup {s \o t : s \in shorter, t \in tokens}

Strings(tokens, n) == IF n = 0 THEN {""} ELSE Extend(tokens, Strings(tokens, n - 1))

\* URLs handed to the methods called directly: a prefix and a generated suffix
UrlPrefixes == {"", "http://127.0.0.1:48626", "http://127.0.0.1:48626/hom/hou/",
                "http://x/docs/"}

UrlTokens == {"/", "?", "#", "*", ":", "_", "a", ".html"}

ArgUrls == {p \o s : p \in UrlPrefixes, s \in Strings(UrlTokens, MaxTokens)}

\* hrefs of the documents handed to the methods called directly
HrefTokens == {"#top", "guide.html", "../", "/", "/hom/hou/", "?v=1",
               "http://external.com", "http://127.0.0.1:48626"}

ArgHrefs == Strings(HrefTokens, MaxTokens)

\* the pages those documents were fetched from
PageUrls == {START_URL, "http://127.0.0.1:48626/hom/hou/sub/page.html",
             "http://127.0.0.1:48626/hom/other.html"}

ArgDocs == {<<TextNode("p"), Anchor(href, "t")>> : href \in ArgHrefs}

\* seeds given to the constructor: the built-in one and another site
Seeds == {START_URL, "http://x/docs/index.html"}

\* documents the site may answer with
IndexDoc == <<Anchor("guide.html", "Guide"), Anchor("../other.html", "Other"),
              Anchor("http://external.com", "Ext"), Anchor("#top", "Top")>>

FragDoc == <<Anchor("page.html#sec", "Page"), Anchor("guide.html?v=1", "Guide1")>>

BackDoc == <<Anchor("index.html", "Home"), Anchor("guide.html", "Guide"),
             Anchor("api.html", "Api")>>

PlainDoc == <<TextNode("hello")>>

EmptyDoc == <<>>

\* a page of a site without end: every directory links to a deeper one
DeepDoc == <<Anchor("sub/", "Deeper")>>

\* The site: the pages of the seed's directory answer with any of the
\* documents, the directories below it with DeepDoc or PlainDoc.  A crawl
\* without budget of a site without end does not end, so DeepDoc is served
\* to the runs with a budget only.
Docs(url, budget) ==
    (IF Contains(url, "/sub/") THEN {PlainDoc}
     ELSE {IndexDoc, FragDoc, BackDoc, PlainDoc, EmptyDoc})
    \cup (IF budget = NoBudget THEN {} ELSE {DeepDoc})

\* what requests.get may do: raise, answer 4xx/5xx, or answer 2xx with a body
Responses(url, budget) ==
    {[status |-> "ConnectionError", text |-> EmptyDoc], [status |-> "404", text |-> EmptyDoc]}
    \cup {[status |-> "200", text |-> d] : d \in Docs(url, budget)}

(***************************************************************************)
(* DocumentationScraper: construction and scrape()                         *)
(***************************************************************************)
NoCall == [method |-> "", url |-> "", html |-> <<>>, value |-> ""]

Init ==
    \E seed \in Seeds :
        /\ start_url = seed
        /\ base_url = BaseUrlOf(seed)
        /\ visited_urls = {}
        /\ to_visit = <<seed>>
        /\ max_pages = NoBudget
        /\ page_count = 0
        /\ current_url = ""
        /\ html_content = None
        /\ pc = "idle"
        /\ files = <<>>
        /\ warnings = <<>>
        /\ fetched = <<>>
        /\ saved = <<>>
        /\ discarded = {}
        /\ runs = 0
        /\ enqueued = <<seed>>
        /\ ret = NoCall

\* lines 124-130
get_page_content(response) ==
    IF response.status = "200" THEN Text(response.text) ELSE None

\* `not html_content` of line 181
Falsy(content) == content.is_none \/ content.text = <<>>

\* the budget test off by one
LoopConditionOffByOne ==
    to_visit # <<>> /\ (max_pages = NoBudget \/ page_count <= max_pages)

\* line 164
LoopCondition ==
    to_visit # <<>> /\ (max_pages = NoBudget \/ page_count < max_pages)

\* the front URL read but left in the list
PopFrontKeeps(queue) == queue

\* line 168: what pop(0) leaves in the list
PopFront(queue) == Tail(queue)

\* the URL not recorded
MarkVisitedForgets(visited, url) == visited

\* line 177
MarkVisited(visited, url) == visited \cup {url}

\* the test of line 181 left out
AfterFetchNoTest(content) == "classify"

\* lines 181-182: where scrape() goes on after get_page_content
AfterFetch(content) == IF Falsy(content) THEN "loop" ELSE "classify"

InSeq(x, seq) == \E i \in 1..Len(seq) : seq[i] = x

\* the links put at the front of the list
RECURSIVE AddLinksInFront(_, _)
AddLinksInFront(queue, links) ==
    IF links = <<>> THEN queue
    ELSE AddLinksInFront(IF links[1] \notin visited_urls /\ ~InSeq(links[1], queue)
                         THEN <<links[1]>> \o queue ELSE queue,
                         Tail(links))

\* the links appended without looking into the list
RECURSIVE AddLinksUnlessVisited(_, _)
AddLinksUnlessVisited(queue, links) ==
    IF links = <<>> THEN queue
    ELSE AddLinksUnlessVisited(IF links[1] \notin visited_urls
                               THEN Append(queue, links[1]) ELSE queue,
                               Tail(links))

\* lines 195-197
RECURSIVE AddLinks(_, _)
AddLinks(queue, links) ==
    IF links = <<>> THEN queue
    ELSE AddLinks(IF links[1] \notin visited_urls /\ ~InSeq(links[1], queue)
                  THEN Append(queue, links[1]) ELSE queue,
                  Tail(links))

Range(seq) == {seq[i] : i \in 1..Len(seq)}

\* the links of a page that were never in the list before, each once, in
\* document order
RECURSIVE FirstSeen(_, _)
FirstSeen(known, links) ==
    IF links = <<>> THEN <<>>
    ELSE IF links[1] \in known THEN FirstSeen(known, Tail(links))
    ELSE <<links[1]>> \o FirstSeen(known \cup {links[1]}, Tail(links))

\* an existing file left as it is
WriteFileUnlessExists(dir, filename, content) ==
    [f \in DOMAIN dir \cup {filename} |-> IF f \in DOMAIN dir THEN dir[f] ELSE content]

\* lines 117-118: the file of that name now holds the content
WriteFile(dir, filename, content) ==
    [f \in DOMAIN dir \cup {filename} |-> IF f = filename THEN content ELSE dir[f]]

\* scrape(max_pages) is called: line 162
Scrape ==
    /\ pc \in {"idle", "done"}
    /\ runs < MaxRuns
    /\ \E n \in Budgets : max_pages' = n
    /\ page_count' = 0
    /\ discarded' = {}
    /\ runs' = runs + 1
    /\ pc' = "loop"
    /\ UNCHANGED <<start_url, base_url, visited_urls, to_visit, current_url,
                   html_content, files, warnings, fetched, saved, enqueued,
                   ret>>

\* line 164 false, line 205
LoopExit ==
    /\ pc = "loop"
    /\ ~LoopCondition
    /\ pc' = "done"
    /\ UNCHANGED <<start_url, base_url, visited_urls, to_visit, max_pages,
                   page_count, current_url, html_content, files, warnings,
                   fetched, saved, discarded, runs,
                   enqueued, ret>>

\* line 164 true, line 168
Dequeue ==
    /\ pc = "loop"
    /\ LoopCondition
    /\ current_url' = Head(to_visit)
    /\ to_visit' = PopFront(to_visit)
    /\ pc' = "popped"
    /\ UNCHANGED <<start_url, base_url, visited_urls, max_pages, page_count,
                   html_content, files, warnings, fetched, saved, discarded,
                   runs,
                   enqueued, ret>>

\* lines 171-177
CheckVisited ==
    /\ pc = "popped"
    /\ IF current_url \in visited_urls
       THEN pc' = "loop" /\ UNCHANGED visited_urls
       ELSE pc' = "fetch" /\ visited_urls' = MarkVisited(visited_urls, current_url)
    /\ UNCHANGED <<start_url, base_url, to_visit, max_pages, page_count,
                   current_url, html_content, files, warnings, fetched, saved,
                   discarded, runs,
                   enqueued, ret>>

\* lines 180-182
GetPageContent ==
    /\ pc = "fetch"
    /\ \E response \in Responses(current_url, max_pages) :
         /\ html_content' = get_page_content(response)
         /\ fetched' = Append(fetched, current_url)
         /\ pc' = AfterFetch(get_page_content(response))
         /\ discarded' = IF Falsy(get_page_content(response))
                         THEN discarded \cup {current_url} ELSE discarded
    /\ UNCHANGED <<start_url, base_url, visited_urls, to_visit, max_pages,
                   page_count, current_url, files, warnings, saved, runs,
                   enqueued, ret>>

\* lines 185-200, with save_content (lines 106-120)
SavePage ==
    /\ pc = "classify"
    /\ is_documentation_page(current_url)
    /\ LET filename == get_filename_from_url(current_url)
           processed_content == process_html_content(current_url, html_content.text)
       IN  /\ warnings' = IF filename \in DOMAIN files
                          THEN Append(warnings, filename) ELSE warnings
           /\ files' = WriteFile(files, filename, processed_content)
    /\ saved' = Append(saved, current_url)
    /\ page_count' = page_count + 1
    /\ to_visit' = AddLinks(to_visit, extract_links(current_url, html_content.text))
    /\ enqueued' = enqueued \o FirstSeen(Range(enqueued),
                                          extract_links(current_url, html_content.text))
    /\ pc' = "sleep"
    /\ UNCHANGED <<start_url, base_url, visited_urls, max_pages, current_url,
                   html_content, fetched, discarded, runs, ret>>

\* line 185 false
NotDocumentation ==
    /\ pc = "classify"
    /\ ~is_documentation_page(current_url)
    /\ pc' = "sleep"
    /\ UNCHANGED <<start_url, base_url, visited_urls, to_visit, max_pages,
                   page_count, current_url, html_content, files, warnings,
                   fetched, saved, discarded, runs,
                   enqueued, ret>>

\* line 203
Sleep ==
    /\ pc = "sleep"
    /\ pc' = "loop"
    /\ UNCHANGED <<start_url, base_url, visited_urls, to_visit, max_pages,
                   page_count, current_url, html_content, files, warnings,
                   fetched, saved, discarded, runs,
                   enqueued, ret>>

Next ==
    \/ Scrape
    \/ LoopExit
    \/ Dequeue
    \/ CheckVisited
    \/ GetPageContent
    \/ SavePage
    \/ NotDocumentation
    \/ Sleep

Spec == Init /\ [][Next]_vars

\* the steps scrape() takes by itself once it is called
Step ==
    \/ LoopExit
    \/ Dequeue
    \/ CheckVisited
    \/ GetPageContent
    \/ SavePage
    \/ NotDocumentation
    \/ Sleep

\* scrape() has been called and has not returned
Running == pc \notin {"idle", "done"}

\* A called scrape() keeps running, the interpreter executes its next
\* statement: weak fairness of Step.  Some step that changes the state is
\* possible exactly while scrape() is running, so ENABLED <<Step>>_vars is
\* written as Running.
Fairness == []<>(~Running) \/ []<><<Step>>_vars

SpecLive == Spec /\ Fairness

(***************************************************************************)
(* The pure methods called directly on a constructed scraper               *)
(***************************************************************************)
\* what a direct call leaves in ret
Returned(method, url, html, value) ==
    [method |-> method, url |-> url, html |-> html, value |-> value]

\* each is one call on a freshly constructed scraper
CallGetFilename ==
    /\ pc = "idle"
    /\ ret = NoCall
    /\ \E url \in ArgUrls :
         ret' = Returned("get_filename_from_url", url, <<>>, get_filename_from_url(url))
    /\ UNCHANGED scraper_vars

CallIsDocumentationPage ==
    /\ pc = "idle"
    /\ ret = NoCall
    /\ \E url \in ArgUrls :
         ret' = Returned("is_documentation_page", url, <<>>, is_documentation_page(url))
    /\ UNCHANGED scraper_vars

CallProcessHtml ==
    /\ pc = "idle"
    /\ ret = NoCall
    /\ \E url \in PageUrls, html \in ArgDocs :
         ret' = Returned("process_html_content", url, html, process_html_content(url, html))
    /\ UNCHANGED scraper_vars

CallExtractLinks ==
    /\ pc = "idle"
    /\ ret = NoCall
    /\ \E url \in PageUrls, html \in ArgDocs :
         ret' = Returned("extract_links", url, html, extract_links(url, html))
    /\ UNCHANGED scraper_vars

NextFn ==
    \/ CallGetFilename
    \/ CallIsDocumentationPage
    \/ CallProcessHtml
    \/ CallExtractLinks

SpecFn == Init /\ [][NextFn]_vars

(***************************************************************************)
(* Claims about the pure methods, checked under SpecFn                     *)
(***************************************************************************)
Returns(method) == ret.method = method

NoQueryNoFragment(url) == ~Contains(url, "?") /\ ~Contains(url, "#")

\* the href of an anchor as the browser resolves it from the page, and the
\* page it points to (the fragment removed)
Target(url, href) == Split(urljoin(url, href), "#")[1]

\* the file an href of a written page names (what precedes its '#')
LocalFile(href) == Split(href, "#")[1]

\* C5: on a persisted (in-scope) page, every anchor whose resolved target is
\* out of scope is replaced by its text, and every anchor that remains has
\* as href the file name of its in-scope target, alone or followed by
\* '#' and a fragment, or a bare '#' and a fragment.
C5_RewriterStripsOutOfScope ==
    (Returns("process_html_content") /\ is_documentation_page(ret.url)) =>
        \A i \in 1..Len(ret.html) :
            ret.html[i].name = "a" =>
                IF is_documentation_page(Target(ret.url, ret.html[i].href))
                THEN /\ ret.value[i].name = "a"
                     /\ \/ ret.value[i].href =
                             get_filename_from_url(Target(ret.url, ret.html[i].href))
                        \/ StartsWith(ret.value[i].href,
                             get_filename_from_url(Target(ret.url, ret.html[i].href)) \o "#")
                        \/ StartsWith(ret.value[i].href, "#")
                     /\ ~Contains(LocalFile(ret.value[i].href), ":")
                     /\ ~Contains(LocalFile(ret.value[i].href), "/")
                ELSE ret.value[i] = TextNode(ret.html[i].text)

\* a page whose external link was replaced by its text
C5_Witness ==
    /\ Returns("process_html_content")
    /\ ret.url = START_URL
    /\ ret.html[2] = Anchor("http://external.com", "t")
    /\ ret.value[2] = TextNode("t")

\* C7 (as claimed): on an in-scope page a fragment-only link href="#f" is
\* still href="#f" after the rewriting.
C7_SamePageAnchorKept ==
    (Returns("process_html_content") /\ is_documentation_page(ret.url)) =>
        \A i \in 1..Len(ret.html) :
            (ret.html[i].name = "a" /\ ret.html[i].href = "#top") =>
                ret.value[i] = ret.html[i]

\* the scope root the claim describes: the seed without its last path segment
RECURSIVE DirOf(_)
DirOf(url) ==
    IF url = "" \/ CharAt(url, Len(url)) = "/" THEN url
    ELSE DirOf(SubSeq(url, 1, Len(url) - 1))

\* C8 (as claimed): is_documentation_page(url) is true exactly when url
\* starts with the seed given to the constructor minus its last path segment.
C8_ScopeRootFromSeed ==
    Returns("is_documentation_page") =>
        (ret.value <=> StartsWith(ret.url, DirOf(start_url)))

C10_FilenameSafe ==
    Returns("get_filename_from_url") =>
        /\ EndsWith(ret.value, ".html")
        /\ \A i \in 1..Len(ret.value) : CharAt(ret.value, i) \notin InvalidChars \cup {"#"}

\* a URL whose path holds characters of the class, named by another origin
C10_Witness ==
    /\ Returns("get_filename_from_url")
    /\ ret.url = "http://127.0.0.1:48626/hom/hou/*:a"
    /\ base_url = "http://x"
    /\ ret.value = "http___127.0.0.1_48626_hom_hou___a.html"

(***************************************************************************)
(* Claims about scrape(), checked under Spec and SpecLive                  *)
(***************************************************************************)
Occurrences(seq, x) == Cardinality({i \in 1..Len(seq) : seq[i] = x})

\* the files whose written content has an anchor to the local file name
LinkingFiles(name) ==
    {f \in DOMAIN files :
        \E i \in 1..Len(files[f]) :
            files[f][i].name = "a" /\ LocalFile(files[f][i].href) = name}

\* C1: no URL is handed to requests.get twice and none to save_content
\* twice, over all the scrape() calls made on the scraper.
C1_VisitedOnce ==
    /\ \A i \in 1..Len(fetched) : Occurrences(fetched, fetched[i]) = 1
    /\ \A i \in 1..Len(saved) : Occurrences(saved, saved[i]) = 1

\* guide.html, linked from two written pages, was fetched and saved
C1_Witness ==
    /\ Cardinality(LinkingFiles("hom_hou_guide.html")) >= 2
    /\ "http://127.0.0.1:48626/hom/hou/guide.html" \in Range(fetched)
    /\ "http://127.0.0.1:48626/hom/hou/guide.html" \in Range(saved)

\* the in-scope URLs the crawl has come to know: visited or queued
DiscoveredInScope ==
    {u \in visited_urls \cup Range(to_visit) : is_documentation_page(u)}

\* every get_page_content of the run returned a text that passed line 181
EveryFetchSucceeded == discarded = {}

C3_BudgetedRunTerminates == (pc = "loop" /\ max_pages # NoBudget) ~> (pc = "done")

\* the end of a budgeted run on the site without end, after a failed fetch
C3_Witness ==
    /\ pc = "done"
    /\ max_pages = MaxBudget
    /\ page_count = max_pages
    /\ discarded # {}
    /\ \E u \in Range(to_visit) : Contains(u, "/sub/")

\* C4: the step in which the fetch of the dequeued URL fails (None is
\* returned) leaves the URL visited, writes no file, appends nothing to
\* the list, leaves the page counter, and returns to the loop head.
C4_FailedFetchSkipped ==
    [][(pc = "fetch" /\ html_content'.is_none) =>
          /\ current_url \in visited_urls'
          /\ files' = files
          /\ saved' = saved
          /\ to_visit' = to_visit
          /\ page_count' = page_count
          /\ pc' = "loop"]_vars

\* a URL whose fetch failed, never saved, and a later URL fetched and accepted
C4_Witness ==
    /\ pc = "classify"
    /\ Len(fetched) >= 2
    /\ \E i \in 1..(Len(fetched) - 1) :
         /\ fetched[i] \in discarded
         /\ fetched[i] \in visited_urls
         /\ fetched[i] \notin Range(saved)
         /\ get_filename_from_url(fetched[i]) \notin DOMAIN files

\* C6 (as claimed): when the first run, without budget and with every fetch
\* succeeding, has ended, every local file name written into an href of a
\* saved page is the name of a saved file.
C6_MirrorSelfContained ==
    (pc = "done" /\ runs = 1 /\ max_pages = NoBudget /\ EveryFetchSucceeded) =>
        \A f \in DOMAIN files :
            \A i \in 1..Len(files[f]) :
                (files[f][i].name = "a" /\ LocalFile(files[f][i].href) # "") =>
                    LocalFile(files[f][i].href) \in DOMAIN files

(***************************************************************************)
(* Further claims about get_filename_from_url, checked under SpecFn        *)
(***************************************************************************)
\* the name the branch of lines 49-50 leads to: the netloc of the URL, made
\* safe and given the extension
HostFallback(url) == StripLeading(AddExtension(ReplaceInvalid(urlparse(url).netloc)))

\* C11 (as claimed): a URL equal to the scope root (the directory of the
\* seed, or the directory line 153 tests) gets the host-name fallback name.
C11_ScopeRootGetsHostName ==
    (Returns("get_filename_from_url") /\ ret.url \in {DirOf(start_url), ScopeRoot}) =>
        ret.value = HostFallback(ret.url)

\* C12: calling get_filename_from_url again on the same URL gives the same
\* name, and calling it on the name it returned gives that name again.
C12_FilenameIdempotent ==
    Returns("get_filename_from_url") =>
        /\ get_filename_from_url(ret.url) = ret.value
        /\ get_filename_from_url(ret.value) = ret.value

\* a URL that lost its origin and a leading '_' and gained the extension
C12_Witness ==
    /\ Returns("get_filename_from_url")
    /\ ret.url = "http://127.0.0.1:48626/_a"
    /\ base_url = "http://127.0.0.1:48626"
    /\ ret.value = "a.html"
    /\ get_filename_from_url("a.html") = "a.html"

(***************************************************************************)
(* Further claims about scrape(), checked under Spec                       *)
(***************************************************************************)
NoDuplicates(seq) == \A i, j \in 1..Len(seq) : seq[i] = seq[j] => i = j

\* C13: at the loop head the list of URLs to visit has no URL twice and no
\* visited URL; the URL just taken from it is never a visited one (the skip
\* of lines 171-172 is not taken); and visited_urls changes only by gaining
\* the URL just taken from the list.
C13_QueueDisjointFromVisited ==
    /\ [](pc = "loop" => (NoDuplicates(to_visit) /\ Range(to_visit) \cap visited_urls = {}))
    /\ [](pc = "popped" => current_url \notin visited_urls)
    /\ [][visited_urls' # visited_urls =>
            (pc = "popped" /\ visited_urls' = visited_urls \cup {current_url})]_vars

\* the loop head of a second scrape() call, with URLs visited and URLs left
C13_Witness ==
    /\ pc = "loop"
    /\ runs = 2
    /\ Cardinality(visited_urls) >= 2
    /\ Len(to_visit) >= 2

\* the URLs that came from link discovery: all that were queued, visited or
\* fetched, but the seed
Discovered == (Range(to_visit) \cup visited_urls \cup Range(fetched)) \ {start_url}

C15_SuccessfulFetchIsSaved ==
    [][/\ (pc = "fetch" /\ ~html_content'.is_none) => pc' = "classify"
       /\ (pc = "classify" /\ is_documentation_page(current_url)) =>
             /\ saved' = Append(saved, current_url)
             /\ page_count' = page_count + 1
             /\ get_filename_from_url(current_url) \in DOMAIN files'
             /\ files'[get_filename_from_url(current_url)] =
                    process_html_content(current_url, html_content.text)]_vars

\* C16: from the moment an out-of-scope URL is taken from the list, its
\* iteration adds it to visited_urls and changes nothing else of the crawl:
\* no file, no warning, no saved page, no URL appended, the same page counter.
C16_OutOfScopeChangesNothing ==
    [][(pc \in {"popped", "fetch", "classify", "sleep"}
        /\ ~StartsWith(current_url, ScopeRoot)) =>
          /\ files' = files
          /\ warnings' = warnings
          /\ saved' = saved
          /\ to_visit' = to_visit
          /\ page_count' = page_count
          /\ visited_urls' = visited_urls \cup {current_url}
          /\ pc = "classify" => pc' = "sleep"]_vars

\* an out-of-scope URL after its scope test: fetched with a body, visited,
\* gone from the list, without a file
C16_Witness ==
    /\ pc = "sleep"
    /\ ~StartsWith(current_url, ScopeRoot)
    /\ ~Falsy(html_content)
    /\ current_url \in visited_urls
    /\ current_url \notin Range(to_visit)
    /\ get_filename_from_url(current_url) \notin DOMAIN files
    /\ files # <<>>

\* the URL taken from the list and not yet handed to requests.get
Pending == IF pc \in {"popped", "fetch"} THEN <<current_url>> ELSE <<>>

\* C17: the URLs are fetched in the order in which they were first put
\* into the list (the seed, then the new links of each saved page in
\* document order): the URLs fetched, the one about to be, and the list
\* make up, in this order, the sequence of all URLs ever put into the list.
C17_FetchedInEnqueueOrder == enqueued = fetched \o Pending \o to_visit

\* the third URL about to be fetched while the fourth waits in the list
C17_Witness ==
    /\ pc = "fetch"
    /\ Len(fetched) = 2
    /\ Len(enqueued) = 4
    /\ current_url = enqueued[3]
    /\ to_visit = <<enqueued[4]>>
    /\ fetched[2] \in Range(saved)

\* C18 (as claimed): the iteration of every fetch attempt, failed ones
\* included, passes the delay of line 203 before the loop head is reached
\* again and the next URL is fetched.
C18_DelayAfterEveryFetch ==
    [][(pc \in {"fetch", "classify"}) => (pc' \in {"classify", "sleep"})]_vars

\* C19: when the page being saved maps to the name of a file that exists,
\* the step reports the name in a warning, writes the rewritten content of
\* this page over the file, counts the page, and goes on to the delay and the
\* next URL; so every save either made a new file or left a warning.
C19_CollisionOverwritesAndWarns ==
    /\ [][(pc = "classify" /\ is_documentation_page(current_url)
            /\ get_filename_from_url(current_url) \in DOMAIN files) =>
              /\ warnings' = Append(warnings, get_filename_from_url(current_url))
              /\ files'[get_filename_from_url(current_url)] =
                     process_html_content(current_url, html_content.text)
              /\ DOMAIN files' = DOMAIN files
              /\ saved' = Append(saved, current_url)
              /\ page_count' = page_count + 1
              /\ pc' = "sleep"]_vars
    /\ [](Len(saved) = Cardinality(DOMAIN files) + Len(warnings))

\* two different saved URLs with one file name, both counted, one warning,
\* and the file holding the rewritten content of the later one
C19_Witness ==
    /\ pc = "sleep"
    /\ runs = 1
    /\ page_count = 3
    /\ saved = <<START_URL, "http://127.0.0.1:48626/hom/hou/guide.html?v=1",
                 "http://127.0.0.1:48626/hom/hou/guide.html">>
    /\ warnings = <<"hom_hou_guide.html">>
    /\ files["hom_hou_guide.html"] = process_html_content(current_url, BackDoc)
    /\ to_visit # <<>>

====
